---- MODULE Spec2Model ----
(***************************************************************************)
(* ConnectedPapers::get_graph_stream (src/src/client.rs): the polling      *)
(* stream that fetches a paper graph, retries on overload, escalates an    *)
(* old graph to a fresh rebuild and carries the newest graph forward.      *)
(*                                                                         *)
(* One action is one run of the generator between two suspension points:   *)
(* a yield (the consumer takes the item and polls again), the await of a   *)
(* get_graph call, or the await of a tokio sleep.                          *)
(***************************************************************************)
EXTENDS Integers, Sequences, FiniteSets, TLC

\* ------------------------------------------------------------------ bounds
\* A session starts at most MaxFetches get_graph calls in the model.
MaxFetches == 6

\* The consumer is answered None at most MaxEndPolls times in the model.
MaxEndPolls == 2

\* When two sessions run, each starts at most MaxFetchesTwo get_graph calls.
MaxFetchesTwo == 2

\* A builder is given at most MaxIds ids and MaxFields fields in the model.
MaxIds == 2
MaxFields == 2

\* ------------------------------------------------------------ value spaces
NoneVal == "None"

\* enum GraphResponseType
GraphResponseType ==
    { "BadId", "Error", "NotInDb", "OldGraph", "FreshGraph", "InProgress",
      "Queued", "BadToken", "BadRequest", "OutOfRequests", "Overloaded" }

\* Option<Graph>: the graph is an opaque payload, two distinct ones suffice
Graphs == { "g1", "g2" }
OptGraph == Graphs \cup { NoneVal }

\* Option<f64> progress and Option<u64> remaining_requests, as opaque values
OptProgress == { NoneVal, "p" }
OptRemaining == { NoneVal, "q" }

\* struct GraphResponse; the responses the model draws carry both counters
\* or neither
GraphResponse ==
    { r \in [ status : GraphResponseType, graph_json : OptGraph,
              progress : OptProgress, remaining_requests : OptRemaining ] :
        (r.progress = NoneVal) <=> (r.remaining_requests = NoneVal) }

\* the failures of get_graph (request, body or non-200 status)
Errors == { "e1", "e2" }

\* the results drawn when two sessions run: a status that escalates, one
\* that is polled again and one that is retried, with or without a graph,
\* and one failure
ResponsesTwo ==
    { r \in GraphResponse :
        /\ r.status \in { "OldGraph", "InProgress", "Overloaded" }
        /\ r.progress = NoneVal }
ErrorsTwo == { "e1" }

NoResponse ==
    [ status |-> NoneVal, graph_json |-> NoneVal,
      progress |-> NoneVal, remaining_requests |-> NoneVal ]

\* Item = Result<GraphResponse>, and the absence of an item
OkItem(r) == [ kind |-> "Ok", resp |-> r, err |-> NoneVal ]
ErrItem(e) == [ kind |-> "Err", resp |-> NoResponse, err |-> e ]
NoItem == [ kind |-> "None", resp |-> NoResponse, err |-> NoneVal ]

\* --------------------------------------------------- the code's decisions
\* if let Some(ref graph) = response.graph_json { newest_graph = Some(..) }
UpdateNewest(newest, r) ==
    IF r.graph_json # NoneVal THEN r.graph_json ELSE newest

WithGraphDropsProgress(r, newest) ==
    [ r EXCEPT !.graph_json = newest, !.progress = NoneVal ]

\* response.graph_json = newest_graph.clone()
WithGraph(r, newest) == [ r EXCEPT !.graph_json = newest ]

EscalatesIgnoringWait(wait, fresh) == ~fresh

\* if wait_until_complete && !fresh_only
EscalatesOnOld(wait, fresh) == wait /\ ~fresh

\* else if !fresh_only
StopsOnOld(fresh) == ~fresh

FreshKept(cur) == cur

\* current_fresh_only = true
FreshAfterOld(cur) == TRUE

DelaysSwapped == << 10, 5, 20, 40 >>

DelaysWithFifth == << 5, 10, 20, 40, 80 >>

\* the delays of the overload retry, in seconds
DELAYS == << 5, 10, 20, 40 >>

PollIntervalOfBackoff == DELAYS[1]

\* the polling interval, in seconds
POLL_INTERVAL == 1

IsTerminalButFresh(s) ==
    s \in { "BadId", "Error", "NotInDb", "BadToken", "BadRequest", "OutOfRequests" }

IsTerminalOrOverloaded(s) ==
    s \in { "BadId", "Error", "NotInDb", "FreshGraph", "BadToken",
            "BadRequest", "OutOfRequests", "Overloaded" }

\* let is_terminal = matches!(status, ...)
IsTerminal(s) ==
    s \in { "BadId", "Error", "NotInDb", "FreshGraph", "BadToken",
            "BadRequest", "OutOfRequests" }

RetryBreaksOnTerminal(r) == IsTerminalButFresh(r.status) \/ r.status = "FreshGraph"

\* Ok(new_response) if new_response.status != GraphResponseType::Overloaded
RetryBreaks(r) == r.status # "Overloaded"

ReturnsOnTerminal(wait, terminal) == terminal

ReturnsAlways(wait, terminal) == TRUE

\* if !wait_until_complete || is_terminal { return; }
Returns(wait, terminal) == ~wait \/ terminal

\* ------------------------------------------------------------------ state
VARIABLES
    fresh_only,            \* parameter
    wait_until_complete,   \* parameter
    pc,                    \* where the generator is suspended
    current_fresh_only,    \* let mut current_fresh_only
    newest_graph,          \* let mut newest_graph
    response,              \* the iteration's response while it is live
    status,                \* let status = response.status
    delay_idx,             \* position in DELAYS of the for loop
    sleeping,              \* seconds of the sleep being awaited, 0 if none
    obs,                   \* what an observer of the session has seen
    cons,                  \* what the consumer of the stream has done
    other,                 \* a second session of the same client, while the
                           \* variables above hold the session that runs
    batch,                 \* a PaperBatchParamBuilder and what was done with it
    bulk                   \* a PaperBulkSearchParamBuilder and what was done with it

vars == << fresh_only, wait_until_complete, pc, current_fresh_only,
           newest_graph, response, status, delay_idx, sleeping, obs, cons,
           other, batch, bulk >>

\* the variables of the graph stream
stream == << fresh_only, wait_until_complete, pc, current_fresh_only,
             newest_graph, response, status, delay_idx, sleeping, obs, cons,
             other >>

\* the variables of the parameter builders
builders == << batch, bulk >>

params == << fresh_only, wait_until_complete >>

\* ------------------------------------------------------------ observation
\* The observer records the calls the session makes and the items it yields.
ObsInit ==
    [ nFetches |-> 0,          \* get_graph calls started
      nItems |-> 0,            \* items yielded
      lastItem |-> NoItem,     \* the item yielded last
      lastRes |-> NoItem,      \* the result of the get_graph call completed last
      lastFresh |-> FALSE,     \* the fresh flag of the call started last
      firstStatus |-> NoneVal, \* status of the first result ("Err" if it failed)
      freshFlips |-> 0,        \* times a call's flag differed from the previous call's
      latestGraph |-> NoneVal, \* graph of the last successful result that had one
      sinceEmit |-> 0,         \* calls and sleeps started since the last item
      nPollSleeps |-> 0,       \* polling intervals slept to the end
      nBackoffs |-> 0,         \* backoff delays slept to the end
      iterFetches |-> 0,       \* calls started in this loop iteration
      iterBackoff |-> 0,       \* seconds of backoff started in this iteration
      iterItems |-> 0,         \* items yielded in this loop iteration
      resolved |-> NoneVal,    \* status of the iteration's first non-Overloaded retry
      srcFresh |-> FALSE,      \* fresh flag of the call that produced lastItem
      srcRetries |-> 0,        \* retries of the iteration that produced lastItem
      iterOverloaded |-> 0,    \* Overloaded results of this iteration
      iterDelays |-> << >>,    \* backoff delays started in this iteration, in order
      slept |-> 0,             \* seconds of the sleep that ended just before the last call
      nFailed |-> 0,           \* get_graph calls that returned Err
      nErrItems |-> 0,         \* Err items yielded
      inFlight |-> 0,          \* get_graph calls started and not yet returned
      activeSleeps |-> 0,      \* sleeps started and not yet ended
      nResults |-> 0,          \* get_graph calls that returned
      srcIndex |-> 0,          \* position, among the results, of lastItem's result
      carried |-> NoneVal,     \* graph of the last first-call result that had one
      oldFirst |-> FALSE ]     \* an OldGraph result of a first call was yielded

\* a get_graph call starts with flag f; first says it opens a loop iteration
ObsFetch(o, f, first) ==
    [ o EXCEPT !.nFetches = @ + 1,
               !.lastFresh = f,
               !.freshFlips = IF o.nFetches > 0 /\ o.lastFresh # f THEN @ + 1 ELSE @,
               !.sinceEmit = @ + 1,
               !.iterFetches = IF first THEN 1 ELSE @ + 1,
               !.iterBackoff = IF first THEN 0 ELSE @,
               !.iterItems = IF first THEN 0 ELSE @,
               !.resolved = IF first THEN NoneVal ELSE @,
               !.iterOverloaded = IF first THEN 0 ELSE @,
               !.iterDelays = IF first THEN << >> ELSE @,
               !.inFlight = @ + 1 ]

\* a get_graph call completes with res (an OkItem or an ErrItem)
ObsResult(o, res) ==
    [ o EXCEPT !.lastRes = res,
               !.firstStatus =
                   IF o.nFetches # 1 THEN @
                   ELSE IF res.kind = "Ok" THEN res.resp.status ELSE "Err",
               !.latestGraph =
                   IF res.kind = "Ok" /\ res.resp.graph_json # NoneVal
                   THEN res.resp.graph_json ELSE @,
               !.resolved =
                   IF /\ o.iterFetches > 1 /\ o.resolved = NoneVal
                      /\ res.kind = "Ok" /\ res.resp.status # "Overloaded"
                   THEN res.resp.status ELSE @,
               !.iterOverloaded =
                   IF res.kind = "Ok" /\ res.resp.status = "Overloaded"
                   THEN @ + 1 ELSE @,
               !.slept = 0,
               !.nFailed = IF res.kind = "Err" THEN @ + 1 ELSE @,
               !.carried =
                   IF /\ o.iterFetches = 1
                      /\ res.kind = "Ok" /\ res.resp.graph_json # NoneVal
                   THEN res.resp.graph_json ELSE @,
               !.inFlight = @ - 1,
               !.nResults = @ + 1 ]

\* the stream yields item
ObsEmit(o, item) ==
    [ o EXCEPT !.nItems = @ + 1,
               !.iterItems = @ + 1,
               !.lastItem = item,
               !.sinceEmit = 0,
               !.srcFresh = o.lastFresh,
               !.srcRetries = o.iterFetches - 1,
               !.nErrItems = IF item.kind = "Err" THEN @ + 1 ELSE @,
               !.srcIndex = o.nResults,
               !.oldFirst =
                   \/ @
                   \/ /\ item.kind = "Ok" /\ item.resp.status = "OldGraph"
                      /\ o.iterFetches = 1 ]

\* a sleep starts
ObsSleep(o) == [ o EXCEPT !.sinceEmit = @ + 1, !.activeSleeps = @ + 1 ]
ObsBackoff(o, secs) ==
    [ o EXCEPT !.sinceEmit = @ + 1, !.iterBackoff = @ + secs,
               !.iterDelays = Append(@, secs), !.activeSleeps = @ + 1 ]

\* a sleep of secs seconds ends
ObsSlept(o, secs) == [ o EXCEPT !.slept = secs, !.activeSleeps = @ - 1 ]

\* the generator is dropped: the call or sleep it awaits is dropped with it
ObsDropped(o) == [ o EXCEPT !.inFlight = 0, !.activeSleeps = 0 ]

\* What the consumer of the stream has done.
ConsInit ==
    [ nPolls |-> 0,            \* calls of next()
      nEnds |-> 0,             \* calls of next() answered None
      droppedAt |-> NoneVal ]  \* where the generator was when the stream was dropped

\* the consumer calls next() on the stream
ConsPoll(c) == [ c EXCEPT !.nPolls = @ + 1 ]

\* the consumer calls next() and the stream answers None
ConsEnd(c) == [ c EXCEPT !.nPolls = @ + 1, !.nEnds = @ + 1 ]

\* the consumer drops the stream while the generator is at position at
ConsDrop(c, at) == [ c EXCEPT !.droppedAt = at ]

\* A session: the generator of one get_graph_stream call (its parameters and
\* locals, lines 399-406), with what was observed of it and its consumer.
NoSession == [ id |-> 0 ]

\* the session a get_graph_stream(id, f, w) call returns, not yet polled
NewSession(i, f, w) ==
    [ id |-> i, fresh_only |-> f, wait_until_complete |-> w,
      pc |-> "created", current_fresh_only |-> f, newest_graph |-> NoneVal,
      response |-> NoResponse, status |-> NoneVal, delay_idx |-> 0,
      sleeping |-> 0, obs |-> ObsInit, cons |-> ConsInit ]

\* the session that runs, as a record
Running ==
    [ id |-> 3 - other.id, fresh_only |-> fresh_only,
      wait_until_complete |-> wait_until_complete, pc |-> pc,
      current_fresh_only |-> current_fresh_only, newest_graph |-> newest_graph,
      response |-> response, status |-> status, delay_idx |-> delay_idx,
      sleeping |-> sleeping, obs |-> obs, cons |-> cons ]

\* the get_graph calls a session may start in the model
FetchBound == IF other.id = 0 THEN MaxFetches ELSE MaxFetchesTwo

\* ------------------------------------------------------ parameter builders
\* Option<Vec<T>>
NoVec == [ some |-> FALSE, v |-> << >> ]
SomeVec(v) == [ some |-> TRUE, v |-> v ]

\* PaperId and PaperField values given to the builders
PaperIds == { "id1", "id2" }
PaperFields == { "Title", "IsOpenAccess", "Citations" }

\* Result<PaperBatchParam>, and no result
BatchOk(ids, fields) ==
    [ kind |-> "Ok", ids |-> ids, fields |-> fields, err |-> NoneVal ]
BatchErr(e) == [ kind |-> "Err", ids |-> << >>, fields |-> NoVec, err |-> e ]
NoBatchResult ==
    [ kind |-> "None", ids |-> << >>, fields |-> NoVec, err |-> NoneVal ]

\* PaperBatchParamBuilder::default()
BatchDefault == [ ids |-> << >>, fields |-> NoVec ]

\* PaperBatchParamBuilder::id
Batch_id(b, id) == [ b EXCEPT !.ids = Append(@, id) ]

Batch_field_replaces(b, field) == [ b EXCEPT !.fields = SomeVec(<< field >>) ]

\* PaperBatchParamBuilder::field
Batch_field(b, field) ==
    IF b.fields.some
    THEN [ b EXCEPT !.fields = SomeVec(Append(@.v, field)) ]
    ELSE [ b EXCEPT !.fields = SomeVec(<< field >>) ]

\* PaperBatchParamBuilder::build
Batch_build(b) ==
    IF b.ids = << >>
    THEN BatchErr("InvalidParameter")
    ELSE BatchOk(b.ids, b.fields)

\* a new builder: nothing called, nothing built
BatchInit ==
    [ builder |-> BatchDefault,
      argIds |-> << >>,          \* the arguments of the id() calls, in order
      argFields |-> << >>,       \* the arguments of the field() calls, in order
      built |-> NoBatchResult,   \* what build() returned since the last id() or field()
      nBuilds |-> 0 ]            \* build() calls since the last id() or field()

\* Option<u32>, Option<_Date> and Option<(Option<T>, Option<T>)>
NoInt == [ some |-> FALSE, v |-> 0 ]
SomeInt(n) == [ some |-> TRUE, v |-> n ]
NoDate == [ some |-> FALSE, v |-> << >> ]
SomeDate(year, month, day) == [ some |-> TRUE, v |-> << year, month, day >> ]
NoYears == [ some |-> FALSE, start |-> NoInt, end |-> NoInt ]
SomeYears(start, end) == [ some |-> TRUE, start |-> start, end |-> end ]
NoDates == [ some |-> FALSE, start |-> NoDate, end |-> NoDate ]
SomeDates(start, end) == [ some |-> TRUE, start |-> start, end |-> end ]

\* the values given to the search builder
BulkFields == { "Title", "Citations" }
PublicationTypes == { "JournalArticle" }
FieldsOfStudy == { "ComputerScience" }
Years == { 2019, 2020 }
CitationCounts == { 10 }
Queries == { "test" }

\* PaperBulkSearchParamBuilder::default(); token, sort and venue are set by
\* setters of their own and read by none of the others
BulkDefault ==
    [ query |-> NoneVal, fields |-> NoVec, publication_types |-> NoVec,
      open_access_pdf |-> NoneVal, min_citation_count |-> NoInt,
      publication_date |-> NoDates, year |-> NoYears,
      fields_of_study |-> NoVec ]

\* the push of field, publication_type and field_of_study
PushOpt(vec, x) ==
    IF vec.some THEN SomeVec(Append(vec.v, x)) ELSE SomeVec(<< x >>)

\* PaperBulkSearchParamBuilder::query
Bulk_query(b, q) == [ b EXCEPT !.query = q ]

\* PaperBulkSearchParamBuilder::field
Bulk_field(b, field) == [ b EXCEPT !.fields = PushOpt(@, field) ]

\* PaperBulkSearchParamBuilder::publication_type
Bulk_publication_type(b, t) == [ b EXCEPT !.publication_types = PushOpt(@, t) ]

\* PaperBulkSearchParamBuilder::open_access_pdf
Bulk_open_access_pdf(b) == [ b EXCEPT !.open_access_pdf = "true" ]

\* PaperBulkSearchParamBuilder::min_citation_count
Bulk_min_citation_count(b, n) == [ b EXCEPT !.min_citation_count = SomeInt(n) ]

\* PaperBulkSearchParamBuilder::from_date
Bulk_from_date(b, year, month, day) ==
    IF b.publication_date.some
    THEN [ b EXCEPT !.publication_date.start = SomeDate(year, month, day) ]
    ELSE [ b EXCEPT !.publication_date =
                        SomeDates(SomeDate(year, month, day), NoDate) ]

\* PaperBulkSearchParamBuilder::from_year
Bulk_from_year(b, year) ==
    IF b.year.some
    THEN [ b EXCEPT !.year.start = SomeInt(year) ]
    ELSE [ b EXCEPT !.year = SomeYears(SomeInt(year), NoInt) ]

\* PaperBulkSearchParamBuilder::to_year
Bulk_to_year(b, year) ==
    IF b.year.some
    THEN [ b EXCEPT !.year.end = SomeInt(year) ]
    ELSE [ b EXCEPT !.year = SomeYears(NoInt, SomeInt(year)) ]

\* PaperBulkSearchParamBuilder::at_year
Bulk_at_year(b, year) ==
    [ b EXCEPT !.year = SomeYears(SomeInt(year), SomeInt(year)) ]

\* PaperBulkSearchParamBuilder::field_of_study
Bulk_field_of_study(b, f) == [ b EXCEPT !.fields_of_study = PushOpt(@, f) ]

\* Result<PaperBulkSearchParam>, and no result
BulkErr(e) == [ kind |-> "Err", param |-> BulkDefault, err |-> e ]
BulkOk(p) == [ kind |-> "Ok", param |-> p, err |-> NoneVal ]
NoBulkResult == [ kind |-> "None", param |-> BulkDefault, err |-> NoneVal ]

\* the fields build() rejects
UnsupportedFields == { "Citations", "References", "Embedding", "Tldr" }

\* PaperBulkSearchParamBuilder::build; dates_ok is whether Date::try_from
\* accepts the dates, a conversion defined outside this source
Bulk_build(b, dates_ok) ==
    IF b.query = NoneVal
    THEN BulkErr("InvalidParameter")
    ELSE IF b.fields.some
            /\ \E i \in 1 .. Len(b.fields.v) : b.fields.v[i] \in UnsupportedFields
    THEN BulkErr("InvalidParameter")
    ELSE IF b.year.some /\ b.year.start.some /\ b.year.end.some
            /\ b.year.start.v > b.year.end.v
    THEN BulkErr("InvalidParameter")
    ELSE IF b.publication_date.some /\ ~dates_ok
    THEN BulkErr("DateError")
    ELSE BulkOk(b)

\* a new builder: nothing called, nothing built
BulkInit ==
    [ builder |-> BulkDefault,
      calledQuery |-> FALSE,     \* query() was called
      calledFromDate |-> NoDate, \* the arguments of the last from_date()
      calledYear |-> FALSE,      \* from_year(), to_year() or at_year() was called
      argFields |-> << >>,       \* the arguments of the field() calls, in order
      argTypes |-> << >>,        \* those of the publication_type() calls
      argStudies |-> << >>,      \* those of the field_of_study() calls
      argCitations |-> NoInt,    \* that of the last min_citation_count()
      calledOpenAccess |-> FALSE,\* open_access_pdf() was called
      built |-> NoBulkResult,    \* what build() returned since the last setter
      nBuilds |-> 0 ]            \* build() calls since the last setter

\* bulk after a setter made builder b
BulkSet(b) == [ bulk EXCEPT !.builder = b, !.built = NoBulkResult, !.nBuilds = 0 ]

\* ------------------------------------------------------------------- Init
Init ==
    /\ fresh_only \in BOOLEAN
    /\ wait_until_complete \in BOOLEAN
    /\ pc = "created"
    /\ current_fresh_only = fresh_only
    /\ newest_graph = NoneVal
    /\ response = NoResponse
    /\ status = NoneVal
    /\ delay_idx = 0
    /\ sleeping = 0
    /\ obs = ObsInit
    /\ cons = ConsInit
    /\ other = NoSession
    /\ batch = BatchInit
    /\ bulk = BulkInit

\* one client, two get_graph_stream calls
InitTwo ==
    /\ fresh_only \in BOOLEAN
    /\ wait_until_complete \in BOOLEAN
    /\ pc = "created"
    /\ current_fresh_only = fresh_only
    /\ newest_graph = NoneVal
    /\ response = NoResponse
    /\ status = NoneVal
    /\ delay_idx = 0
    /\ sleeping = 0
    /\ obs = ObsInit
    /\ cons = ConsInit
    /\ \E f \in BOOLEAN, w \in BOOLEAN : other = NewSession(2, f, w)
    /\ batch = BatchInit
    /\ bulk = BulkInit

\* ---------------------------------------------------------------- actions
\* self.get_graph(&id, current_fresh_only) is called (line 409 or 432)
CanFetch == obs.nFetches < FetchBound

\* The consumer polls the new stream: the body runs to the first get_graph.
FirstPoll ==
    /\ pc = "created"
    /\ CanFetch
    /\ current_fresh_only' = fresh_only
    /\ newest_graph' = NoneVal
    /\ pc' = "f409"
    /\ obs' = ObsFetch(obs, fresh_only, TRUE)
    /\ cons' = ConsPoll(cons)
    /\ UNCHANGED << params, other, builders, response, status, delay_idx, sleeping >>

\* yield Ok(response) at line 450, after the graph is overwritten (448-450)
Emit450(r, newest, o) ==
    /\ status' = r.status
    /\ response' = NoResponse
    /\ delay_idx' = 0
    /\ sleeping' = 0
    /\ pc' = "y450"
    /\ obs' = ObsEmit(o, OkItem(WithGraph(r, newest)))

StartBackoffEmitting(r, i, o) ==
    /\ response' = r
    /\ delay_idx' = i
    /\ sleeping' = DELAYS[i]
    /\ pc' = "s431"
    /\ obs' = ObsBackoff(ObsEmit(o, OkItem(r)), DELAYS[i])
    /\ UNCHANGED status

\* the for loop sleeps DELAYS[i] (line 431)
StartBackoff(r, i, o) ==
    /\ response' = r
    /\ delay_idx' = i
    /\ sleeping' = DELAYS[i]
    /\ pc' = "s431"
    /\ obs' = ObsBackoff(o, DELAYS[i])
    /\ UNCHANGED status

\* get_graph at line 409 returns Ok(response): lines 410-450
FetchOk(r) ==
    /\ pc = "f409"
    /\ LET newest == UpdateNewest(newest_graph, r)
           o == ObsResult(obs, OkItem(r))
       IN  /\ newest_graph' = newest
           /\ IF r.status = "OldGraph" /\ EscalatesOnOld(wait_until_complete, fresh_only)
              THEN /\ current_fresh_only' = FreshAfterOld(current_fresh_only)
                   /\ pc' = "y419"
                   /\ obs' = ObsEmit(o, OkItem(WithGraph(r, newest)))
                   /\ UNCHANGED << response, status, delay_idx, sleeping >>
              ELSE IF r.status = "OldGraph" /\ StopsOnOld(fresh_only)
              THEN /\ pc' = "y424"
                   /\ obs' = ObsEmit(o, OkItem(WithGraph(r, newest)))
                   /\ UNCHANGED << current_fresh_only, response, status,
                                   delay_idx, sleeping >>
              ELSE IF r.status = "Overloaded"
              THEN /\ StartBackoff(r, 1, o)
                   /\ UNCHANGED current_fresh_only
              ELSE /\ Emit450(r, newest, o)
                   /\ UNCHANGED current_fresh_only
    /\ UNCHANGED << params, other, builders, cons >>

\* get_graph at line 409 returns Err(e): yield Err(e) (lines 469-470)
FetchErr(e) ==
    /\ pc = "f409"
    /\ pc' = "y470"
    /\ obs' = ObsEmit(ObsResult(obs, ErrItem(e)), ErrItem(e))
    /\ UNCHANGED << params, other, builders, current_fresh_only, newest_graph, response,
                    status, delay_idx, sleeping, cons >>

BackoffDoneCallerFlag ==
    /\ pc = "s431"
    /\ CanFetch
    /\ sleeping' = 0
    /\ pc' = "f432"
    /\ obs' = [ ObsFetch(ObsSlept(obs, sleeping), fresh_only, FALSE)
                  EXCEPT !.nBackoffs = @ + 1 ]
    /\ UNCHANGED << params, other, builders, current_fresh_only, newest_graph, response,
                    status, delay_idx, cons >>

\* the backoff sleep ends and the retry get_graph is called (lines 431-432)
BackoffDone ==
    /\ pc = "s431"
    /\ CanFetch
    /\ sleeping' = 0
    /\ pc' = "f432"
    /\ obs' = [ ObsFetch(ObsSlept(obs, sleeping), current_fresh_only, FALSE)
                  EXCEPT !.nBackoffs = @ + 1 ]
    /\ UNCHANGED << params, other, builders, current_fresh_only, newest_graph, response,
                    status, delay_idx, cons >>

RetryOkKeepsFirst(r) ==
    /\ pc = "f432"
    /\ LET o == ObsResult(obs, OkItem(r))
       IN  IF RetryBreaks(r)
           THEN Emit450(response, newest_graph, o)
           ELSE IF delay_idx < Len(DELAYS)
           THEN StartBackoff(r, delay_idx + 1, o)
           ELSE Emit450(r, newest_graph, o)
    /\ UNCHANGED << params, other, builders, current_fresh_only, newest_graph, cons >>

\* the retry returns Ok(new_response): lines 433-439, then the loop or 448-450
RetryOk(r) ==
    /\ pc = "f432"
    /\ LET o == ObsResult(obs, OkItem(r))
       IN  IF RetryBreaks(r)
           THEN Emit450(r, newest_graph, o)
           ELSE IF delay_idx < Len(DELAYS)
           THEN StartBackoff(r, delay_idx + 1, o)
           ELSE Emit450(r, newest_graph, o)
    /\ UNCHANGED << params, other, builders, current_fresh_only, newest_graph, cons >>

RetryErrEmitsLast(e) ==
    /\ pc = "f432"
    /\ Emit450(response, newest_graph, ObsResult(obs, ErrItem(e)))
    /\ UNCHANGED << params, other, builders, current_fresh_only, newest_graph, cons >>

\* the retry returns Err(e): yield Err(e) (lines 440-441)
RetryErr(e) ==
    /\ pc = "f432"
    /\ pc' = "y441"
    /\ response' = NoResponse
    /\ delay_idx' = 0
    /\ obs' = ObsEmit(ObsResult(obs, ErrItem(e)), ErrItem(e))
    /\ UNCHANGED << params, other, builders, current_fresh_only, newest_graph, status, sleeping,
                    cons >>

Resume419NoSleep ==
    /\ pc = "y419"
    /\ CanFetch
    /\ pc' = "f409"
    /\ obs' = ObsFetch(obs, current_fresh_only, TRUE)
    /\ cons' = ConsPoll(cons)
    /\ UNCHANGED << params, other, builders, current_fresh_only, newest_graph, response,
                    status, delay_idx, sleeping >>

\* polled after the yield of line 419: sleep the polling interval (line 420)
Resume419 ==
    /\ pc = "y419"
    /\ pc' = "s420"
    /\ sleeping' = POLL_INTERVAL
    /\ obs' = ObsSleep(obs)
    /\ cons' = ConsPoll(cons)
    /\ UNCHANGED << params, other, builders, current_fresh_only, newest_graph, response,
                    status, delay_idx >>

ResumeKeepsPolling ==
    /\ pc \in { "y424", "y441", "y470" }
    /\ pc' = "s467"
    /\ sleeping' = POLL_INTERVAL
    /\ obs' = ObsSleep(obs)
    /\ cons' = ConsPoll(cons)
    /\ UNCHANGED << params, other, builders, current_fresh_only, newest_graph, response,
                    status, delay_idx >>

\* polled after the yield of line 424, 441 or 470: return
ResumeReturn ==
    /\ pc \in { "y424", "y441", "y470" }
    /\ pc' = "done"
    /\ cons' = ConsEnd(cons)
    /\ UNCHANGED << params, other, builders, current_fresh_only, newest_graph, response,
                    status, delay_idx, sleeping, obs >>

Resume450Prefetch ==
    /\ pc = "y450"
    /\ IF Returns(wait_until_complete, IsTerminal(status))
       THEN /\ pc' = "done"
            /\ cons' = ConsEnd(cons)
            /\ UNCHANGED << sleeping, obs >>
       ELSE /\ pc' = "s467"
            /\ sleeping' = POLL_INTERVAL
            /\ obs' = ObsFetch(ObsSleep(obs), current_fresh_only, TRUE)
            /\ cons' = ConsPoll(cons)
    /\ UNCHANGED << params, other, builders, current_fresh_only, newest_graph, response,
                    status, delay_idx >>

\* polled after the yield of line 450: lines 452-467
Resume450 ==
    /\ pc = "y450"
    /\ IF Returns(wait_until_complete, IsTerminal(status))
       THEN /\ pc' = "done"
            /\ cons' = ConsEnd(cons)
            /\ UNCHANGED << sleeping, obs >>
       ELSE /\ pc' = "s467"
            /\ sleeping' = POLL_INTERVAL
            /\ obs' = ObsSleep(obs)
            /\ cons' = ConsPoll(cons)
    /\ UNCHANGED << params, other, builders, current_fresh_only, newest_graph, response,
                    status, delay_idx >>

\* the polling sleep ends (line 420 then continue, or line 467 then the loop)
\* and the next iteration calls get_graph (line 409)
PollSleepDone ==
    /\ pc \in { "s420", "s467" }
    /\ CanFetch
    /\ sleeping' = 0
    /\ pc' = "f409"
    /\ obs' = [ ObsFetch(ObsSlept(obs, sleeping), current_fresh_only, TRUE)
                  EXCEPT !.nPollSleeps = @ + 1 ]
    /\ UNCHANGED << params, other, builders, current_fresh_only, newest_graph, response,
                    status, delay_idx, cons >>

DropDetached ==
    /\ pc \notin { "done", "dropped" }
    /\ cons.droppedAt = NoneVal
    /\ cons' = ConsDrop(cons, pc)
    /\ UNCHANGED << params, other, builders, pc, current_fresh_only, newest_graph, response,
                    status, delay_idx, sleeping, obs >>

\* The consumer drops the stream: the generator and the future it awaits
\* are dropped with it.
Drop ==
    /\ pc \notin { "done", "dropped" }
    /\ pc' = "dropped"
    /\ sleeping' = 0
    /\ obs' = ObsDropped(obs)
    /\ cons' = ConsDrop(cons, pc)
    /\ UNCHANGED << params, other, builders, current_fresh_only, newest_graph, response,
                    status, delay_idx >>

PollEndedRestarts ==
    /\ pc = "done"
    /\ CanFetch
    /\ pc' = "f409"
    /\ obs' = ObsFetch(obs, fresh_only, TRUE)
    /\ cons' = ConsPoll(cons)
    /\ UNCHANGED << params, other, builders, current_fresh_only, newest_graph, response,
                    status, delay_idx, sleeping >>

\* The consumer calls next() on the stream that has returned: the stream is
\* done and answers None without running the generator.
PollEnded ==
    /\ pc = "done"
    /\ cons.nEnds < MaxEndPolls
    /\ cons' = ConsEnd(cons)
    /\ UNCHANGED << params, other, builders, pc, current_fresh_only, newest_graph, response,
                    status, delay_idx, sleeping, obs >>

SwitchSharesLocals ==
    /\ other.id # 0
    /\ other' = Running
    /\ fresh_only' = other.fresh_only
    /\ wait_until_complete' = other.wait_until_complete
    /\ pc' = other.pc
    /\ response' = other.response
    /\ status' = other.status
    /\ delay_idx' = other.delay_idx
    /\ sleeping' = other.sleeping
    /\ obs' = other.obs
    /\ cons' = other.cons
    /\ UNCHANGED << current_fresh_only, newest_graph, builders >>

\* The executor stops polling the session that runs, at the suspension point
\* it has reached, and polls the other session: each generator owns its
\* parameters and its locals (lines 403-406), the client is only read.
Switch ==
    /\ other.id # 0
    /\ other' = Running
    /\ fresh_only' = other.fresh_only
    /\ wait_until_complete' = other.wait_until_complete
    /\ pc' = other.pc
    /\ current_fresh_only' = other.current_fresh_only
    /\ newest_graph' = other.newest_graph
    /\ response' = other.response
    /\ status' = other.status
    /\ delay_idx' = other.delay_idx
    /\ sleeping' = other.sleeping
    /\ obs' = other.obs
    /\ cons' = other.cons
    /\ UNCHANGED builders

Next ==
    \/ FirstPoll
    \/ \E r \in GraphResponse : FetchOk(r)
    \/ \E e \in Errors : FetchErr(e)
    \/ BackoffDone
    \/ \E r \in GraphResponse : RetryOk(r)
    \/ \E e \in Errors : RetryErr(e)
    \/ Resume419
    \/ ResumeReturn
    \/ Resume450
    \/ PollSleepDone
    \/ Drop
    \/ PollEnded

Spec == Init /\ [][Next]_vars

\* two sessions of one client, each consumed to its end, polled in any
\* interleaving
NextTwo ==
    \/ FirstPoll
    \/ \E r \in ResponsesTwo : FetchOk(r)
    \/ \E e \in ErrorsTwo : FetchErr(e)
    \/ BackoffDone
    \/ \E r \in ResponsesTwo : RetryOk(r)
    \/ \E e \in ErrorsTwo : RetryErr(e)
    \/ Resume419
    \/ ResumeReturn
    \/ Resume450
    \/ PollSleepDone
    \/ Switch

SpecTwo == InitTwo /\ [][NextTwo]_vars

\* A service that stops answering with a non-terminal status: the results of
\* the calls before the last one the model allows are arbitrary, the last
\* call returns one of the seven terminal statuses or fails.
ResponsesLive ==
    { r \in GraphResponse : r.graph_json = NoneVal /\ r.progress = NoneVal }

ServiceAnswers ==
    IF obs.nFetches < MaxFetches
    THEN ResponsesLive
    ELSE { r \in ResponsesLive :
             r.status \in { "BadId", "Error", "NotInDb", "FreshGraph",
                            "BadToken", "BadRequest", "OutOfRequests" } }

\* The stream consumed to its end, never dropped: every get_graph call
\* returns, every sleep ends and the consumer polls again after every item.
NextLive ==
    \/ FirstPoll
    \/ \E r \in ServiceAnswers : FetchOk(r)
    \/ \E e \in Errors : FetchErr(e)
    \/ BackoffDone
    \/ \E r \in ServiceAnswers : RetryOk(r)
    \/ \E e \in Errors : RetryErr(e)
    \/ Resume419
    \/ ResumeReturn
    \/ Resume450
    \/ PollSleepDone
    \/ PollEnded

SpecLive == Init /\ [][NextLive]_vars /\ WF_vars(NextLive)

\* builder.id(id)
BatchCallId(id) ==
    /\ Len(batch.argIds) < MaxIds
    /\ batch' = [ batch EXCEPT !.builder = Batch_id(@, id),
                               !.argIds = Append(@, id),
                               !.built = NoBatchResult,
                               !.nBuilds = 0 ]
    /\ UNCHANGED << stream, bulk >>

\* builder.field(field)
BatchCallField(field) ==
    /\ Len(batch.argFields) < MaxFields
    /\ batch' = [ batch EXCEPT !.builder = Batch_field(@, field),
                               !.argFields = Append(@, field),
                               !.built = NoBatchResult,
                               !.nBuilds = 0 ]
    /\ UNCHANGED << stream, bulk >>

\* builder.build(), at most twice in a row in the model
BatchCallBuild ==
    /\ batch.nBuilds < 2
    /\ batch' = [ batch EXCEPT !.built = Batch_build(batch.builder),
                               !.nBuilds = @ + 1 ]
    /\ UNCHANGED << stream, bulk >>

NextBatch ==
    \/ \E id \in PaperIds : BatchCallId(id)
    \/ \E field \in PaperFields : BatchCallField(field)
    \/ BatchCallBuild

SpecBatch == Init /\ [][NextBatch]_vars

\* builder.query(&QueryNode::term(q))
BulkCallQuery(q) ==
    /\ ~bulk.calledQuery
    /\ bulk' = [ BulkSet(Bulk_query(bulk.builder, q)) EXCEPT !.calledQuery = TRUE ]
    /\ UNCHANGED << stream, batch >>

\* builder.field(field)
BulkCallField(field) ==
    /\ Len(bulk.argFields) < MaxFields
    /\ bulk' = [ BulkSet(Bulk_field(bulk.builder, field))
                   EXCEPT !.argFields = Append(@, field) ]
    /\ UNCHANGED << stream, batch >>

\* builder.publication_type(t), once in the model
BulkCallPublicationType(t) ==
    /\ bulk.argTypes = << >>
    /\ bulk' = [ BulkSet(Bulk_publication_type(bulk.builder, t))
                   EXCEPT !.argTypes = Append(@, t) ]
    /\ UNCHANGED << stream, batch >>

\* builder.open_access_pdf()
BulkCallOpenAccess ==
    /\ ~bulk.calledOpenAccess
    /\ bulk' = [ BulkSet(Bulk_open_access_pdf(bulk.builder))
                   EXCEPT !.calledOpenAccess = TRUE ]
    /\ UNCHANGED << stream, batch >>

\* builder.min_citation_count(n)
BulkCallMinCitations(n) ==
    /\ ~bulk.argCitations.some
    /\ bulk' = [ BulkSet(Bulk_min_citation_count(bulk.builder, n))
                   EXCEPT !.argCitations = SomeInt(n) ]
    /\ UNCHANGED << stream, batch >>

\* builder.from_date(2020, 1, 1)
BulkCallFromDate ==
    /\ ~bulk.calledFromDate.some
    /\ bulk' = [ BulkSet(Bulk_from_date(bulk.builder, 2020, 1, 1))
                   EXCEPT !.calledFromDate = SomeDate(2020, 1, 1) ]
    /\ UNCHANGED << stream, batch >>

\* builder.from_year(y), builder.to_year(y) or builder.at_year(y)
BulkCallFromYear(y) ==
    /\ bulk' = [ BulkSet(Bulk_from_year(bulk.builder, y)) EXCEPT !.calledYear = TRUE ]
    /\ UNCHANGED << stream, batch >>

BulkCallToYear(y) ==
    /\ bulk' = [ BulkSet(Bulk_to_year(bulk.builder, y)) EXCEPT !.calledYear = TRUE ]
    /\ UNCHANGED << stream, batch >>

BulkCallAtYear(y) ==
    /\ bulk' = [ BulkSet(Bulk_at_year(bulk.builder, y)) EXCEPT !.calledYear = TRUE ]
    /\ UNCHANGED << stream, batch >>

\* builder.field_of_study(f), once in the model
BulkCallFieldOfStudy(f) ==
    /\ bulk.argStudies = << >>
    /\ bulk' = [ BulkSet(Bulk_field_of_study(bulk.builder, f))
                   EXCEPT !.argStudies = Append(@, f) ]
    /\ UNCHANGED << stream, batch >>

\* builder.build(), at most twice in a row in the model
BulkCallBuild ==
    /\ bulk.nBuilds < 2
    /\ \E dates_ok \in BOOLEAN :
          bulk' = [ bulk EXCEPT !.built = Bulk_build(bulk.builder, dates_ok),
                                !.nBuilds = @ + 1 ]
    /\ UNCHANGED << stream, batch >>

NextBulk ==
    \/ \E q \in Queries : BulkCallQuery(q)
    \/ \E field \in BulkFields : BulkCallField(field)
    \/ \E t \in PublicationTypes : BulkCallPublicationType(t)
    \/ BulkCallOpenAccess
    \/ \E n \in CitationCounts : BulkCallMinCitations(n)
    \/ BulkCallFromDate
    \/ \E y \in Years : BulkCallFromYear(y)
    \/ \E y \in Years : BulkCallToYear(y)
    \/ \E y \in Years : BulkCallAtYear(y)
    \/ \E f \in FieldsOfStudy : BulkCallFieldOfStudy(f)
    \/ BulkCallBuild

SpecBulk == Init /\ [][NextBulk]_vars

\* ----------------------------------------------------------------- typing
TypeOK ==
    /\ fresh_only \in BOOLEAN
    /\ wait_until_complete \in BOOLEAN
    /\ pc \in { "created", "f409", "y419", "s420", "y424", "s431", "f432",
                "y441", "y450", "s467", "y470", "done", "dropped" }
    /\ current_fresh_only \in BOOLEAN
    /\ newest_graph \in OptGraph
    /\ delay_idx \in 0 .. Len(DELAYS)
    /\ sleeping \in { 0, POLL_INTERVAL } \cup { DELAYS[i] : i \in 1 .. Len(DELAYS) }
    /\ obs.nFetches \in 0 .. MaxFetches
    /\ obs.inFlight \in 0 .. 1
    /\ obs.activeSleeps \in 0 .. 1
    /\ cons.nEnds \in 0 .. MaxEndPolls
    /\ other.id \in 0 .. 2
    /\ other.id # 0 => other.obs.nFetches \in 0 .. MaxFetchesTwo

\* ----------------------------------------------------------------- claims
LastOk == obs.lastItem.kind = "Ok"
LastStatus == obs.lastItem.resp.status
LastGraph == obs.lastItem.resp.graph_json

\* the generator is suspended at a yield of an Ok item: nothing has
\* happened since the emission
JustYieldedOk == pc \in { "y419", "y424", "y450" }

\* C1: once a snapshot with status BadId, Error, NotInDb, FreshGraph,
\* BadToken, BadRequest or OutOfRequests is emitted, no further item is
\* emitted and no get_graph call is started, for every wait_until_complete
\* and fresh_only.
C1_Statuses ==
    { "BadId", "Error", "NotInDb", "FreshGraph", "BadToken", "BadRequest",
      "OutOfRequests" }

C1_TerminalEmitted == LastOk /\ LastStatus \in C1_Statuses

C1_TerminalIsLast ==
    [][ C1_TerminalEmitted =>
          /\ obs'.nItems = obs.nItems
          /\ obs'.nFetches = obs.nFetches
          /\ obs'.sinceEmit = 0 ]_vars

C1_Witness ==
    /\ wait_until_complete
    /\ pc = "done"
    /\ obs.nItems >= 2
    /\ C1_TerminalEmitted

\* C2: when a get_graph call fails, that error is emitted in the same step
\* as the next item, and afterwards nothing is emitted, fetched or slept.
C2_ErrorSeen == obs.lastRes.kind = "Err"

C2_ErrorEndsSession ==
    /\ [] ( C2_ErrorSeen =>
              /\ obs.lastItem = obs.lastRes
              /\ obs.sinceEmit = 0
              /\ sleeping = 0
              /\ pc \in { "y441", "y470", "done", "dropped" } )
    /\ [][ /\ (~C2_ErrorSeen /\ C2_ErrorSeen' => obs'.nItems = obs.nItems + 1)
           /\ (C2_ErrorSeen => obs' = obs) ]_vars

C2_Witness ==
    /\ C2_ErrorSeen
    /\ pc = "done"
    /\ obs.iterFetches >= 2
    /\ obs.nItems >= 2

\* C3: once a successful get_graph result (first call of an iteration or a
\* retry) carried a graph, every snapshot emitted from then on has a graph.
C3_CarryForward ==
    (JustYieldedOk /\ obs.latestGraph # NoneVal) => LastGraph # NoneVal

\* C4: the graph of every emitted snapshot is the graph of the most recent
\* successful get_graph result, retries included, that carried one.
C4_NewestGraphEmitted ==
    JustYieldedOk => LastGraph = obs.latestGraph

\* C5: with wait_until_complete = false the stream holds exactly one item
\* when it ends and never more, makes between 1 and 5 get_graph calls,
\* never sleeps the polling interval and starts nothing after its item.
C5_SingleShot ==
    ~wait_until_complete =>
        /\ obs.nItems <= 1
        /\ (pc = "done" => obs.nItems = 1)
        /\ obs.nFetches <= 5
        /\ (obs.nItems = 1 => obs.nFetches >= 1 /\ obs.sinceEmit = 0)
        /\ pc \notin { "s420", "s467" }
        /\ obs.nPollSleeps = 0
        /\ sleeping # POLL_INTERVAL

C5_Witness ==
    /\ ~wait_until_complete
    /\ pc = "done"
    /\ obs.nFetches = 5
    /\ obs.nItems = 1

\* C6: with wait_until_complete = false, a first result whose status is
\* not Overloaded is emitted with that status, after exactly one get_graph
\* call and no sleep, and the stream has nothing left to do but end.
C6_SingleFetch ==
    ( /\ ~wait_until_complete
      /\ obs.firstStatus \notin { NoneVal, "Err", "Overloaded" } ) =>
        /\ obs.nFetches = 1
        /\ obs.nItems = 1
        /\ LastOk
        /\ LastStatus = obs.firstStatus
        /\ obs.sinceEmit = 0
        /\ sleeping = 0
        /\ obs.nPollSleeps = 0
        /\ obs.nBackoffs = 0
        /\ pc \in { "y424", "y450", "done", "dropped" }

C6_Witness ==
    /\ ~wait_until_complete
    /\ obs.firstStatus = "Queued"
    /\ LastStatus = "Queued"
    /\ pc = "done"

\* C7: with fresh_only = false and wait_until_complete = true, when the
\* first result is OldGraph: the first call had fresh = false, the OldGraph
\* snapshot is emitted, one polling interval is slept before the second
\* call, every call from the second on has fresh = true, and the flag
\* changes value exactly once.
C7_Case ==
    /\ ~fresh_only
    /\ wait_until_complete
    /\ obs.firstStatus = "OldGraph"

C8_OldGraphAfterEscalationEnds ==
    ( /\ ~fresh_only /\ wait_until_complete
      /\ LastOk /\ LastStatus = "OldGraph"
      /\ obs.srcFresh /\ obs.srcRetries = 0 ) =>
        obs.sinceEmit = 0

\* C9: with fresh_only = true and wait_until_complete = true, an OldGraph
\* returned by the first call of an iteration is the last item: no polling
\* sleep and no call follow it.
C9_OldGraphInFreshModeEnds ==
    ( /\ fresh_only /\ wait_until_complete
      /\ LastOk /\ LastStatus = "OldGraph"
      /\ obs.srcRetries = 0 ) =>
        /\ obs.sinceEmit = 0
        /\ pc \notin { "s467", "f409" }

\* C10: once a retry of the overload loop returns a status other than
\* Overloaded, the iteration sleeps no further delay and makes no further
\* retry, and its single snapshot has that status.
C10_RetryStopsEarly ==
    obs.resolved # NoneVal =>
        /\ pc \in { "y450", "s467", "done", "dropped" }
        /\ sleeping \in { 0, POLL_INTERVAL }
        /\ obs.iterItems = 1
        /\ LastOk
        /\ LastStatus = obs.resolved
        /\ obs.srcRetries = obs.iterFetches - 1

C10_Witness ==
    /\ obs.resolved = "InProgress"
    /\ obs.iterFetches = 3
    /\ obs.iterBackoff = 15
    /\ pc = "s467"

\* C11: when the first three results of the session are Overloaded,
\* Overloaded, FreshGraph.  As claimed: only the 5s delay is slept before
\* the FreshGraph result, and one FreshGraph item is emitted.
C11_Case ==
    /\ obs.nFetches = 3 /\ obs.nResults = 3
    /\ obs.iterFetches = 3 /\ obs.iterOverloaded = 2
    /\ obs.lastRes.kind = "Ok" /\ obs.lastRes.resp.status = "FreshGraph"

C11_OnlyFiveSlept ==
    C11_Case =>
        /\ obs.iterDelays = << 5 >>
        /\ obs.nItems = 1 /\ LastOk /\ LastStatus = "FreshGraph"

\* C11 as amended: the 5s and the 10s delays are both slept (and no other)
\* before the FreshGraph result, exactly one item is emitted, its status is
\* FreshGraph, and nothing is started after it.
C11_FiveAndTenSlept ==
    C11_Case =>
        /\ obs.iterDelays = << 5, 10 >>
        /\ obs.nBackoffs = 2
        /\ obs.nPollSleeps = 0
        /\ obs.nItems = 1 /\ LastOk /\ LastStatus = "FreshGraph"
        /\ obs.sinceEmit = 0
        /\ pc \in { "y450", "done", "dropped" }

C11_Witness ==
    /\ C11_Case
    /\ pc = "done"
    /\ obs.iterBackoff = 15

\* C12: when all five results of an iteration are Overloaded, the iteration
\* emits exactly one item, an Ok snapshot with status Overloaded; with
\* wait_until_complete it then sleeps one polling interval and starts a new
\* iteration whose retry schedule starts again at its first delay; without
\* wait_until_complete the stream ends.
C12_Exhausted == obs.iterOverloaded = 5

C12_AfterExhausted ==
    /\ LastOk /\ LastStatus = "Overloaded" /\ obs.srcRetries = 4
    /\ obs.sinceEmit >= 2

C12_OverloadedSurvives ==
    /\ C12_Exhausted =>
          /\ obs.iterItems = 1 /\ LastOk /\ LastStatus = "Overloaded"
          /\ obs.nErrItems = 0
          /\ obs.iterDelays = << 5, 10, 20, 40 >>
          /\ wait_until_complete =>
                /\ pc \in { "y450", "s467", "dropped" }
                /\ pc = "s467" => sleeping = 1
          /\ ~wait_until_complete => pc \in { "y450", "done", "dropped" }
    /\ C12_AfterExhausted =>
          /\ wait_until_complete
          /\ obs.nPollSleeps >= 1
          /\ obs.sinceEmit = 2 => (pc \in { "f409", "dropped" } /\ obs.slept = 1)
          /\ obs.iterFetches = 1 => obs.iterDelays \in { << >>, << 5 >> }
          /\ obs.iterFetches = 2 => obs.iterDelays \in { << 5 >>, << 5, 10 >> }
          /\ (pc = "s431" /\ obs.iterFetches = 1) => sleeping = 5

C12_Witness ==
    /\ C12_AfterExhausted
    /\ pc = "s431"
    /\ obs.iterFetches = 1
    /\ obs.nFetches = 6

\* C13: an iteration makes at most 4 retries and 5 calls and sleeps at most
\* 75s of backoff; its k-th retry is immediately preceded by a sleep of the
\* k-th delay of 5s, 10s, 20s, 40s; and retries only follow Overloaded
\* results of the same iteration.
C13_Schedule == << 5, 10, 20, 40 >>

C13_BoundedBackoff ==
    /\ obs.iterFetches <= 5
    /\ obs.iterBackoff <= 75
    /\ Len(obs.iterDelays) <= 4
    /\ obs.iterDelays = SubSeq(C13_Schedule, 1, Len(obs.iterDelays))
    /\ pc = "f432" =>
          /\ obs.iterFetches >= 2
          /\ Len(obs.iterDelays) = obs.iterFetches - 1
          /\ obs.slept = C13_Schedule[obs.iterFetches - 1]
          /\ obs.iterOverloaded = obs.iterFetches - 1
    /\ pc = "s431" =>
          /\ obs.iterOverloaded = obs.iterFetches
          /\ Len(obs.iterDelays) = obs.iterFetches
          /\ sleeping = C13_Schedule[obs.iterFetches]
    /\ obs.iterFetches >= 2 => obs.iterOverloaded >= obs.iterFetches - 1
    /\ pc = "f409" => obs.iterFetches = 1 /\ obs.iterDelays = << >>

C13_Witness ==
    /\ pc = "f432"
    /\ obs.iterFetches = 5
    /\ obs.slept = 40
    /\ obs.iterBackoff = 75

\* C14: an Err item is emitted exactly when a get_graph call failed; a
\* successful result that is emitted is an Ok item whatever its status;
\* there is at most one Err item and it is the last item.
C14_ErrorsOnlyFromFailures ==
    /\ obs.nErrItems = obs.nFailed
    /\ obs.nErrItems <= 1
    /\ obs.nErrItems = 1 => obs.lastItem.kind = "Err"
    /\ (obs.nItems > 0 /\ obs.srcIndex = obs.nResults /\ obs.lastRes.kind = "Ok") =>
          (LastOk /\ LastStatus = obs.lastRes.resp.status)
    /\ (obs.nItems > 0 /\ obs.lastItem.kind = "Err") => obs.lastRes.kind = "Err"

C14_Witness ==
    /\ pc = "done"
    /\ obs.nErrItems = 1
    /\ obs.nItems = 3
    /\ obs.iterFetches >= 2

\* C15: once the consumer has dropped the stream, no get_graph call, no
\* sleep and no iteration is started and no item is emitted.
C15_Dropped == cons.droppedAt # NoneVal

C15_NothingAfterDrop ==
    [][ C15_Dropped =>
          /\ obs'.nFetches = obs.nFetches
          /\ obs'.nResults = obs.nResults
          /\ obs'.nItems = obs.nItems
          /\ obs'.sinceEmit = obs.sinceEmit
          /\ obs'.iterFetches = obs.iterFetches
          /\ obs'.lastItem = obs.lastItem
          /\ obs'.activeSleeps <= obs.activeSleeps ]_vars

C15_Witness ==
    /\ cons.droppedAt = "s467"
    /\ obs.nItems >= 2
    /\ pc = "dropped"

\* C16: no get_graph call is made before the first next(); a call or a
\* sleep is started only while a next() is unanswered; and once the stream
\* has answered None, every later next() is answered None and nothing is
\* fetched, slept or emitted again.
C16_Suspended == pc \in { "created", "y419", "y424", "y441", "y450", "y470" }

C16_LazyForwardOnly ==
    /\ [] ( /\ obs.nFetches > 0 => cons.nPolls >= 1
            /\ obs.sinceEmit > 0 => cons.nPolls = obs.nItems + 1
            /\ C16_Suspended =>
                  /\ cons.nPolls = obs.nItems
                  /\ obs.sinceEmit = 0 /\ obs.inFlight = 0 /\ obs.activeSleeps = 0
            /\ cons.nEnds > 0 => pc = "done"
            /\ pc = "done" => cons.nPolls = obs.nItems + cons.nEnds )
    /\ [][ pc = "done" => (pc' = "done" /\ obs' = obs) ]_vars

C16_Witness ==
    /\ pc = "done"
    /\ cons.nEnds = 2
    /\ obs.nItems >= 2

\* C17: of two sessions of one client run interleaved, each passes to
\* get_graph the flag its own parameters and its own yielded OldGraph
\* results determine, and each yields the graph its own first-call results
\* carried last: the escalation and the graph of one session never reach the
\* other.
C17_Own(s) ==
    /\ s.pc \in { "f409", "f432" } =>
          ( s.obs.lastFresh <=>
              (s.fresh_only \/ (s.wait_until_complete /\ s.obs.oldFirst)) )
    /\ s.pc \in { "y419", "y424", "y450" } =>
          s.obs.lastItem.resp.graph_json = s.obs.carried

C17_Independent ==
    /\ C17_Own(Running)
    /\ other.id # 0 => C17_Own(other)

C17_Witness ==
    /\ other.id # 0
    /\ pc = "f409" /\ ~fresh_only /\ obs.lastFresh
    /\ obs.lastItem.resp.graph_json = "g1"
    /\ other.pc = "f409" /\ ~other.obs.lastFresh
    /\ other.obs.nItems = 1
    /\ other.obs.lastItem.resp.graph_json = "g2"

\* C18: a session has at most one get_graph call in flight, and none while
\* it sleeps: at most one call or sleep is awaited at any time.
C18_Sequential ==
    /\ obs.inFlight <= 1
    /\ obs.activeSleeps <= 1
    /\ obs.inFlight + obs.activeSleeps <= 1
    /\ sleeping > 0 => obs.inFlight = 0

C18_Witness ==
    /\ obs.inFlight = 1
    /\ obs.nPollSleeps >= 1
    /\ obs.nBackoffs >= 1
    /\ obs.nFetches >= 4

\* C19: every Ok item has the status, progress and remaining_requests of
\* the result returned last, that result comes later in the session than
\* the result of the previous item, and no call has been started since it
\* returned: the items are a subsequence, in order, of the results.
C19_Core(r) == << r.status, r.progress, r.remaining_requests >>

C19_FetchOrder ==
    [][ (obs'.nItems # obs.nItems /\ obs'.lastItem.kind = "Ok") =>
          /\ obs'.nItems = obs.nItems + 1
          /\ obs'.lastRes.kind = "Ok"
          /\ C19_Core(obs'.lastItem.resp) = C19_Core(obs'.lastRes.resp)
          /\ obs'.srcIndex = obs'.nResults
          /\ obs'.srcIndex > obs.srcIndex
          /\ obs'.nFetches = obs'.nResults
          /\ obs'.inFlight = 0 ]_vars

C19_Witness ==
    /\ obs.nItems = 3
    /\ obs.srcIndex = 5
    /\ LastOk
    /\ obs.lastItem.resp.progress = "p"
    /\ obs.lastItem.resp.remaining_requests = "q"
    /\ obs.srcRetries = 2

\* C20: with wait_until_complete = true, a stream that has returned ended
\* on an Err item or on a snapshot with a terminal status, never on
\* InProgress, Queued or Overloaded.
C20_EndsOnTerminal ==
    (wait_until_complete /\ pc = "done") =>
        \/ obs.lastItem.kind = "Err"
        \/ /\ LastOk
           /\ LastStatus \in { "BadId", "Error", "NotInDb", "FreshGraph",
                               "BadToken", "BadRequest", "OutOfRequests" }

C20_Witness ==
    /\ wait_until_complete
    /\ pc = "done"
    /\ obs.nItems >= 3
    /\ LastOk /\ LastStatus = "FreshGraph"

\* C21: when every call returns, every sleep ends, the consumer keeps
\* polling and the service answers with a non-terminal status only finitely
\* often, the stream ends, for every fresh_only and wait_until_complete;
\* with wait_until_complete = false it ends within 5 get_graph calls.
C21_Terminates ==
    /\ <>(pc = "done")
    /\ [] ( ~wait_until_complete => obs.nFetches <= 5 )

C21_Witness ==
    /\ pc = "done"
    /\ wait_until_complete
    /\ obs.nFetches = MaxFetches
    /\ obs.nItems >= 3
    /\ LastOk /\ LastStatus = "FreshGraph"

\* C22: the first get_graph call carries the caller's fresh_only; every
\* call, retries included, carries current_fresh_only; after a call with
\* fresh = true no call is made with fresh = false; and with
\* fresh_only = true every call carries fresh = true.
C22_CallStarts == obs'.nFetches = obs.nFetches + 1

C22_FreshMonotone ==
    /\ [] ( (fresh_only /\ obs.nFetches > 0) => obs.lastFresh )
    /\ [][ C22_CallStarts =>
             /\ obs.nFetches = 0 => obs'.lastFresh = fresh_only
             /\ obs'.lastFresh = current_fresh_only'
             /\ (obs.nFetches > 0 /\ obs.lastFresh) => obs'.lastFresh ]_vars

C22_Witness ==
    /\ pc = "f432"
    /\ ~fresh_only
    /\ obs.lastFresh
    /\ obs.freshFlips = 1
    /\ obs.nFetches >= 4

\* C23: with wait_until_complete = true and fresh_only = false, when the
\* overload retry of an iteration ends on an OldGraph result before any
\* escalation, the get_graph call that follows the emission of that result
\* carries fresh = true.
C23_RetryResolvedOld ==
    /\ wait_until_complete /\ ~fresh_only
    /\ LastOk /\ LastStatus = "OldGraph"
    /\ obs.srcRetries >= 1
    /\ ~obs.srcFresh

C23_RetryOldGraphEscalates ==
    [][ (C23_RetryResolvedOld /\ obs'.nFetches = obs.nFetches + 1) =>
          obs'.lastFresh ]_vars

\* C24: with wait_until_complete = true, after a snapshot with status
\* InProgress, Queued or Overloaded the session, polled again, sleeps one
\* polling interval of 1s and then starts exactly one get_graph call, with
\* current_fresh_only, before it yields the next item.
C24_Pending ==
    /\ wait_until_complete
    /\ LastOk /\ LastStatus \in { "InProgress", "Queued", "Overloaded" }

C24_OneSleepOneFetch ==
    [][ (C24_Pending /\ obs'.nItems = obs.nItems + 1) =>
          /\ obs.sinceEmit = 2
          /\ obs.slept = 1
          /\ obs.lastFresh = current_fresh_only ]_vars

\* C24 as the code has it: the 1s sleep comes first, then one get_graph
\* call with current_fresh_only, and nothing is yielded before that call
\* returns; more calls precede the next item only as the retries of an
\* Overloaded result of that call.
C24_SleepThenFetch ==
    /\ [] ( C24_Pending =>
              /\ obs.sinceEmit = 0 => pc \in { "y450", "dropped" }
              /\ obs.sinceEmit = 1 =>
                    /\ pc \in { "s467", "dropped" }
                    /\ pc = "s467" => sleeping = 1
              /\ obs.sinceEmit = 2 =>
                    /\ pc \in { "f409", "dropped" }
                    /\ obs.slept = 1
                    /\ obs.lastFresh = current_fresh_only
              /\ obs.sinceEmit > 2 =>
                    /\ obs.iterOverloaded >= 1
                    /\ obs.lastFresh = current_fresh_only )
    /\ [][ (C24_Pending /\ obs'.nItems = obs.nItems + 1) =>
             /\ obs.sinceEmit >= 2
             /\ obs.nPollSleeps >= 1
             /\ obs.sinceEmit > 2 => obs.iterOverloaded >= 1 ]_vars

C24_Witness ==
    /\ wait_until_complete
    /\ pc = "y450"
    /\ obs.nItems = 3
    /\ obs.srcRetries = 0
    /\ obs.nPollSleeps = 2
    /\ obs.nFetches = 3
    /\ LastOk /\ LastStatus = "Queued"
    /\ obs.firstStatus = "InProgress"

\* C25: a get_graph call or a sleep in progress when the consumer drops the
\* stream runs to completion: the call started is in flight or has
\* returned, the sleep started is in progress or has ended.
C25_DroppedInCall == cons.droppedAt \in { "f409", "f432" }
C25_DroppedInSleep == cons.droppedAt \in { "s420", "s431", "s467" }

C25_RunsToCompletion ==
    /\ C25_DroppedInCall => obs.nFetches = obs.nResults + obs.inFlight
    /\ C25_DroppedInSleep => (obs.activeSleeps = 1 \/ obs.slept > 0)

\* C25 as the code has it: the call or sleep awaited when the stream is
\* dropped is dropped with the generator; the call never returns a result
\* to the session, the sleep never ends, and nothing more is observed.
C25_DroppedWithStream ==
    /\ [] ( /\ C25_DroppedInCall =>
                  /\ pc = "dropped"
                  /\ obs.inFlight = 0
                  /\ obs.nResults = obs.nFetches - 1
            /\ C25_DroppedInSleep =>
                  /\ pc = "dropped"
                  /\ sleeping = 0 /\ obs.activeSleeps = 0 /\ obs.slept = 0
                  /\ obs.nResults = obs.nFetches )
    /\ [][ (C25_DroppedInCall \/ C25_DroppedInSleep) => obs' = obs ]_vars

C25_Witness ==
    /\ cons.droppedAt = "f432"
    /\ pc = "dropped"
    /\ obs.nItems >= 1
    /\ obs.nFetches = 3
    /\ obs.nResults = 2

\* C26: every loop iteration yields exactly one item; an Overloaded result
\* that is followed by a retry is never yielded; the items never outnumber
\* the iterations started; and a result is yielded at most once.
C26_Iterations == IF obs.nFetches = 0 THEN 0 ELSE obs.nPollSleeps + 1

C26_OneItemPerIteration ==
    /\ [] ( /\ obs.iterItems <= 1
            /\ obs.nItems <= C26_Iterations
            /\ obs.nItems >= C26_Iterations - 1
            /\ pc \in { "f409", "s431", "f432" } =>
                  (obs.iterItems = 0 /\ obs.nItems = C26_Iterations - 1)
            /\ pc \in { "y419", "s420", "y424", "y441", "y450", "s467",
                         "y470", "done" } =>
                  (obs.iterItems = 1 /\ obs.nItems = C26_Iterations)
            /\ (LastOk /\ LastStatus = "Overloaded") => obs.srcRetries = 4
            /\ (pc = "y450" /\ LastStatus = "Overloaded") => obs.iterOverloaded = 5 )
    /\ [][ /\ obs'.nItems \in { obs.nItems, obs.nItems + 1 }
           /\ obs'.nItems = obs.nItems + 1 =>
                 (obs'.srcIndex = obs'.nResults /\ obs'.srcIndex > obs.srcIndex)
           /\ obs'.nItems = obs.nItems => obs'.srcIndex = obs.srcIndex ]_vars

C26_Witness ==
    /\ pc = "y450"
    /\ obs.nItems = 2
    /\ obs.nPollSleeps = 1
    /\ obs.nFetches = 5
    /\ obs.iterOverloaded = 3
    /\ LastOk /\ LastStatus = "InProgress"

\* C27: every get_graph call but the first starts right when a sleep ends:
\* the 1s polling interval before the first call of an iteration, a
\* backoff delay before a retry; two calls never follow each other
\* without a sleep between them.
C27_SleepBeforeCall ==
    /\ [] ( /\ obs.nFetches > 0 =>
                  obs.nFetches = 1 + obs.nPollSleeps + obs.nBackoffs
            /\ (pc = "f409" /\ obs.nFetches > 1) => obs.slept = 1
            /\ pc = "f432" => obs.slept \in { 5, 10, 20, 40 } )
    /\ [][ (obs'.nFetches = obs.nFetches + 1 /\ obs.nFetches > 0) =>
             /\ pc \in { "s420", "s431", "s467" }
             /\ sleeping > 0 /\ obs.activeSleeps = 1
             /\ obs.inFlight = 0
             /\ sleeping' = 0 /\ obs'.activeSleeps = 0
             /\ obs'.slept = sleeping ]_vars

C27_Witness ==
    /\ pc = "f409"
    /\ obs.nFetches = 4
    /\ obs.nPollSleeps = 2
    /\ obs.nBackoffs = 1
    /\ obs.slept = 1
    /\ obs.oldFirst

\* C28: a yielded snapshot differs from the get_graph result it was made
\* from in its graph only: its status, progress and remaining_requests are
\* those of the result that returned last in its iteration (the first
\* call, or the last retry), never those of an earlier result.
C28_SameButGraph(a, b) ==
    [ a EXCEPT !.graph_json = NoneVal ] = [ b EXCEPT !.graph_json = NoneVal ]

C28_OnlyGraphChanged ==
    JustYieldedOk =>
        /\ obs.lastRes.kind = "Ok"
        /\ C28_SameButGraph(obs.lastItem.resp, obs.lastRes.resp)
        /\ obs.srcIndex = obs.nResults
        /\ obs.srcRetries = obs.iterFetches - 1
        /\ obs.nResults = obs.nFetches

C28_Witness ==
    /\ pc = "y450"
    /\ obs.srcRetries = 2
    /\ obs.nItems = 2
    /\ LastStatus = "Queued"
    /\ obs.lastItem.resp.progress = "p"
    /\ LastGraph = "g1"
    /\ obs.lastRes.resp.graph_json = "g2"

\* C29: after any id() and field() calls, build() returns
\* Err(InvalidParameter) exactly when id() was never called; otherwise its
\* ids and fields are the arguments of the calls in call order, fields
\* being None when field() was never called; build() leaves the builder
\* as it is and a second build() returns the same.
C29_BuildMatchesCalls ==
    /\ [] ( batch.nBuilds > 0 =>
              /\ batch.built.kind \in { "Ok", "Err" }
              /\ batch.built.kind = "Err" <=> batch.argIds = << >>
              /\ batch.built.kind = "Err" => batch.built.err = "InvalidParameter"
              /\ batch.built.kind = "Ok" =>
                    /\ batch.built.ids = batch.argIds
                    /\ batch.built.fields.some <=> batch.argFields # << >>
                    /\ batch.built.fields.v = batch.argFields )
    /\ [][ batch'.nBuilds = batch.nBuilds + 1 =>
             /\ batch'.builder = batch.builder
             /\ batch.nBuilds > 0 => batch'.built = batch.built ]_vars

C29_Witness ==
    /\ batch.nBuilds = 2
    /\ batch.built.kind = "Ok"
    /\ batch.argIds = << "id2", "id1" >>
    /\ batch.argFields = << "IsOpenAccess", "Title" >>

\* C30: a builder on which query() and from_date(2020, 1, 1) were called
\* and no year setter was called builds a parameter whose year is
\* Some((Some(2020), Some(2020))) and whose fields, publication types,
\* open-access flag, minimum citation count and fields of study are the
\* values given.
C30_Case ==
    /\ bulk.nBuilds > 0
    /\ bulk.built.kind = "Ok"
    /\ bulk.calledQuery
    /\ bulk.calledFromDate = SomeDate(2020, 1, 1)
    /\ ~bulk.calledYear

C30_FromDateGivesYear ==
    C30_Case =>
        /\ bulk.built.param.year = SomeYears(SomeInt(2020), SomeInt(2020))
        /\ bulk.built.param.fields.v = bulk.argFields
        /\ bulk.built.param.publication_types.v = bulk.argTypes
        /\ bulk.built.param.open_access_pdf = "true" <=> bulk.calledOpenAccess
        /\ bulk.built.param.min_citation_count = bulk.argCitations
        /\ bulk.built.param.fields_of_study.v = bulk.argStudies

====
